---- MODULE Spec2Model ----
(***************************************************************************)
(* Model of the synchronization core of libbdgt: GitSyncEngine             *)
(* (src/src/sync/git_engine.rs) driving a Syncable store                   *)
(* (src/src/sync/syncable.rs) that exchanges Changelog diffs               *)
(* (src/src/core/changelog.rs).                                            *)
(*                                                                         *)
(* One repository location is modelled.  The engine's operations are       *)
(* single-threaded and synchronous, so each call is one atomic action; the *)
(* steps a call ran, and the steps that returned an error, are recorded    *)
(* in `last`.                                                              *)
(***************************************************************************)
EXTENDS Integers, Sequences, FiniteSets, TLC

\* ------------------------------------------------------------------------
\* Bounds of the model
\* ------------------------------------------------------------------------
MaxChanges == 1
MaxCommits == 2
MaxItems == 2
MaxBufLen == 2

\* ------------------------------------------------------------------------
\* Inputs
\* ------------------------------------------------------------------------
\* Instance names, listed in ascending order.
InstanceOrder == <<"A", "B">>
Instances == {InstanceOrder[k] : k \in 1..Len(InstanceOrder)}

\* Remote endpoints a caller may pass.  The empty string is the endpoint the
\* version-control library refuses (clone and remote creation fail on it).
Urls == {"", "u1", "u2"}
NoRemote == "NoRemote"
ValidUrl(u) == u # ""

\* Entities of the store and the local changes a caller makes: accounts added.
Entities == {"e1"}
KindOrder == <<"accounts", "categories", "transactions", "plans">>
Kinds == {KindOrder[k] : k \in 1..Len(KindOrder)}
Fields == {"added", "changed", "removed"}
ChangeShapes == {<<"accounts", "added">>}

\* ------------------------------------------------------------------------
\* Program constants (git_engine.rs)
\* ------------------------------------------------------------------------
REMOTE_NAME_Renamed == "upstream"
REMOTE_NAME == "origin"

\* A path of the repository directory: absent, or a file holding a sequence
\* of encoded diffs.
NoFile == [exists |-> FALSE, data |-> <<>>]
File(data) == [exists |-> TRUE, data |-> data]

\* ------------------------------------------------------------------------
\* Changelog (core/changelog.rs)
\* ------------------------------------------------------------------------
SimpleChangelog_new == [added |-> <<>>, changed |-> <<>>, removed |-> <<>>]

Changelog_new ==
    [accounts |-> SimpleChangelog_new, categories |-> SimpleChangelog_new,
     transactions |-> SimpleChangelog_new, plans |-> SimpleChangelog_new]

FieldOrder == <<"added", "changed", "removed">>

\* The twelve sequences of a Changelog in declaration order, as <<kind, field>>.
SlotOrder ==
    [s \in 1..(Len(KindOrder) * Len(FieldOrder)) |->
        <<KindOrder[((s - 1) \div Len(FieldOrder)) + 1],
          FieldOrder[((s - 1) % Len(FieldOrder)) + 1]>>]

SlotIndex ==
    [p \in Kinds \X Fields |-> CHOOSE s \in 1..Len(SlotOrder) : SlotOrder[s] = p]

SlotOf(k, f) == SlotIndex[<<k, f>>]

\* to_vec: the binary representation, modelled as the items of the twelve
\* sequences in declaration order, each tagged with the sequence it is in.
RECURSIVE EncodeFrom(_, _)
EncodeFrom(c, s) ==
    IF s > Len(SlotOrder) THEN <<>>
    ELSE LET items == c[SlotOrder[s][1]][SlotOrder[s][2]]
         IN  [n \in 1..Len(items) |-> <<s, items[n]>>] \o EncodeFrom(c, s + 1)

\* A serializer that leaves out the first sequence (accounts.added).
to_vec_SkipsFirst(c) == EncodeFrom(c, 2)

to_vec(c) == EncodeFrom(c, 1)

\* Bytes are a valid encoding when every item names one of the twelve
\* sequences and the sequences come in declaration order.
WellFormed(bytes) ==
    /\ \A n \in 1..Len(bytes) : bytes[n][1] \in 1..Len(SlotOrder)
    /\ \A n \in 1..(Len(bytes) - 1) : bytes[n][1] <= bytes[n + 1][1]

\* from_slice: the changelog the bytes encode, or an error.
from_slice(bytes) ==
    IF WellFormed(bytes)
    THEN [ok |-> TRUE,
          value |-> [k \in Kinds |-> [f \in Fields |->
              LET hits == SelectSeq(bytes, LAMBDA b : b[1] = SlotOf(k, f))
              IN  [n \in 1..Len(hits) |-> hits[n][2]]]]]
    ELSE [ok |-> FALSE, value |-> Changelog_new]

\* ------------------------------------------------------------------------
\* Syncable (sync/syncable.rs): the store is the sequence of local changes,
\* each stamped with the time it was made.
\* ------------------------------------------------------------------------
EntsOf(s) == [n \in 1..Len(s) |-> s[n].ent]

\* diff_since(base): every local change made strictly after base.
diff_since(st, base) ==
    [k \in Kinds |-> [f \in Fields |->
        EntsOf(SelectSeq(st, LAMBDA c : c.kind = k /\ c.field = f /\ c.time > base))]]

\* serialize_diff(diff, instance, writer): the encoded diff, tagged with the
\* instance, is written at the writer's position.
serialize_diff(data, diff, instance) ==
    Append(data, [instance |-> instance, bytes |-> to_vec(diff)])

\* deserialize_diff(instance, reader): the inverse; fails on malformed input.
deserialize_diff(instance, data) ==
    IF Len(data) = 1 /\ data[1].instance = instance /\ from_slice(data[1].bytes).ok
    THEN [ok |-> TRUE, diff |-> from_slice(data[1].bytes).value]
    ELSE [ok |-> FALSE, diff |-> Changelog_new]

\* merge_diffs(diffs): the diffs are applied to the store in the order given;
\* an empty sequence changes nothing.
merge_diffs(done, diffs) == done \o diffs

\* Vec::append(&mut other): the items of other are moved to the end of self
\* and other is left empty.
VecAppend(self, other) == self \o other

\* Changelog::append: the twelve Vec::append calls, in the order written.
append_PlansSlip(self, changelog) ==
    [accounts |->
        [added   |-> VecAppend(self.accounts.added, changelog.accounts.added),
         changed |-> VecAppend(self.accounts.changed, changelog.accounts.changed),
         removed |-> VecAppend(self.accounts.removed, changelog.accounts.removed)],
     categories |->
        [added   |-> VecAppend(self.categories.added, changelog.categories.added),
         changed |-> VecAppend(self.categories.changed, changelog.categories.changed),
         removed |-> VecAppend(self.categories.removed, changelog.categories.removed)],
     transactions |->
        [added   |-> VecAppend(self.transactions.added, changelog.transactions.added),
         changed |-> VecAppend(self.transactions.changed, changelog.transactions.changed),
         removed |-> VecAppend(self.transactions.removed, changelog.transactions.removed)],
     plans |->
        [added   |-> VecAppend(self.plans.added, changelog.plans.added),
         changed |-> VecAppend(self.plans.changed, changelog.plans.changed),
         removed |-> VecAppend(self.plans.removed, changelog.plans.changed)]]

append(self, changelog) ==
    [accounts |->
        [added   |-> VecAppend(self.accounts.added, changelog.accounts.added),
         changed |-> VecAppend(self.accounts.changed, changelog.accounts.changed),
         removed |-> VecAppend(self.accounts.removed, changelog.accounts.removed)],
     categories |->
        [added   |-> VecAppend(self.categories.added, changelog.categories.added),
         changed |-> VecAppend(self.categories.changed, changelog.categories.changed),
         removed |-> VecAppend(self.categories.removed, changelog.categories.removed)],
     transactions |->
        [added   |-> VecAppend(self.transactions.added, changelog.transactions.added),
         changed |-> VecAppend(self.transactions.changed, changelog.transactions.changed),
         removed |-> VecAppend(self.transactions.removed, changelog.transactions.removed)],
     plans |->
        [added   |-> VecAppend(self.plans.added, changelog.plans.added),
         changed |-> VecAppend(self.plans.changed, changelog.plans.changed),
         removed |-> VecAppend(self.plans.removed, changelog.plans.removed)]]

\* ------------------------------------------------------------------------
\* CryptoBuffer (crypto/buffer.rs)
\* ------------------------------------------------------------------------
\* Byte values of the inputs.
Bytes == {0, 1, 255}

ByteSeqs(n) == UNION {[1..m -> Bytes] : m \in 0..n}

\* destroy_data: `for e in data.iter_mut() { *e = 0u8; }`
destroy_data_SkipsLast(data) ==
    [n \in 1..Len(data) |-> IF n = Len(data) THEN data[n] ELSE 0]

destroy_data(data) == [n \in 1..Len(data) |-> 0]

\* destructive_from(value: &mut String): the buffer built from a copy of the
\* bytes, and the source after destroy_data ran over its bytes.
destructive_from_WipedFirst(value) ==
    [buffer |-> destroy_data(value), value |-> destroy_data(value)]

destructive_from(value) ==
    [buffer |-> value, value |-> destroy_data(value)]

\* ------------------------------------------------------------------------
\* State
\* ------------------------------------------------------------------------
VARIABLES
    rootExists,  \* Location::exists(): the root storage location is there
    sync,        \* "absent" | "folder" | "repo": the synchronization subfolder
    opened,      \* a GitSyncEngine handle has been built (create / open)
    remotes,     \* named remotes of the repository: set of [name, url]
    files,       \* working directory: instance name -> file content or NoFile
    index,       \* staged tree: instance name -> content or NoFile
    commits,     \* log entries [parents, tree, msg]; an entry's id is its position
    head,        \* id of the entry HEAD points at, 0 while HEAD is unborn
    clock,       \* wall clock read by chrono::Utc::now()
    store,       \* the Syncable's local changes [kind, field, ent, time]
    applied,     \* diffs that merge_diffs has applied to the store
    lastSync,    \* instance -> time of its last successful round (0: never)
    unpublished, \* instance -> content a failed round left in its file
    remoteCall,  \* the latest add_remote / remove_remote / change_remote call
    okRounds,    \* number of perform_sync rounds that returned Ok
    chg,         \* two changelogs and what append / to_vec / from_slice made of them
    mem,         \* a CryptoBuffer, the String it was built from, released memory
    last         \* record of the last call: arguments, steps run, result

vars == <<rootExists, sync, opened, remotes, files, index, commits, head,
          clock, store, applied, lastSync, unpublished, remoteCall, okRounds,
          chg, mem, last>>

engineVars == <<rootExists, sync, opened, remotes, files, index, commits, head,
                clock, store, applied, lastSync, unpublished, remoteCall,
                okRounds, last>>

NoRemoteCall == [op |-> "none", url |-> "", res |-> "Ok"]

NoCall ==
    [op |-> "none", inst |-> "", url |-> "", res |-> "Ok", steps |-> <<>>,
     errs |-> <<>>, base |-> 0, merged |-> <<>>, nlocal |-> 0,
     fresh |-> FALSE, synced |-> 0, pending |-> NoFile,
     before |-> {}, prior |-> NoRemoteCall]

EmptyTree == [i \in Instances |-> NoFile]

\* No changelog has been built, no buffer constructed.
NoChangelogs ==
    [phase |-> "build", a |-> Changelog_new, b |-> Changelog_new,
     a0 |-> Changelog_new, b0 |-> Changelog_new, res |-> "none",
     bytes |-> <<>>, back |-> [ok |-> FALSE, value |-> Changelog_new]]

NoBuffer ==
    [state |-> "none", how |-> "none", data |-> <<>>, orig |-> <<>>,
     source |-> <<>>, released |-> <<>>]

EngineInit ==
    /\ rootExists \in BOOLEAN
    /\ sync = "absent"
    /\ opened = FALSE
    /\ remotes = {}
    /\ files = EmptyTree
    /\ index = EmptyTree
    /\ commits = <<>>
    /\ head = 0
    /\ clock = 1
    /\ store = <<>>
    /\ applied = <<>>
    /\ lastSync = [i \in Instances |-> 0]
    /\ unpublished = [i \in Instances |-> NoFile]
    /\ remoteCall = NoRemoteCall
    /\ okRounds = 0
    /\ last = NoCall

Init ==
    /\ EngineInit
    /\ chg = NoChangelogs
    /\ mem = NoBuffer

\* ------------------------------------------------------------------------
\* The remote endpoints' repositories, as a clone finds them.  "u1" is an
\* empty repository; "u2" holds one entry with instance B's published diff.
\* ------------------------------------------------------------------------
PublishedByB ==
    [Changelog_new EXCEPT !.accounts = [SimpleChangelog_new EXCEPT !.added = <<"e1">>]]

RemoteTree(url) ==
    IF url = "u2"
    THEN [i \in Instances |->
            IF i = "B" THEN File(<<[instance |-> "B", bytes |-> to_vec(PublishedByB)]>>)
            ELSE NoFile]
    ELSE EmptyTree

RemoteLog(url) ==
    IF url = "u2"
    THEN <<[parents |-> <<>>, tree |-> RemoteTree(url), msg |-> "B"]>>
    ELSE <<>>

\* ------------------------------------------------------------------------
\* GitSyncEngine::create / open
\* ------------------------------------------------------------------------
\* create(loc, remote): create_if_absent, create_dir(sync folder), then clone
\* or init, then open.
\* A create that accepts an existing synchronization folder (create_dir_all)
\* and initializes or clones over it.
create_Repeatable(remote) ==
    /\ rootExists' = TRUE
    /\ sync' = "repo"
    /\ opened' = TRUE
    /\ remotes' = IF remote = NoRemote THEN {}
                  ELSE {[name |-> "origin", url |-> remote]}
    /\ files' = IF remote = NoRemote THEN EmptyTree ELSE RemoteTree(remote)
    /\ index' = files'
    /\ commits' = IF remote = NoRemote THEN <<>> ELSE RemoteLog(remote)
    /\ head' = Len(commits')
    /\ last' = [NoCall EXCEPT !.op = "create", !.url = remote,
                   !.steps = <<"create_if_absent", "create_dir",
                               IF remote = NoRemote THEN "init" ELSE "clone",
                               "open">>]

create(remote) ==
    IF sync # "absent"
    THEN \* std::fs::create_dir fails: the folder already exists
         /\ rootExists' = TRUE
         /\ last' = [NoCall EXCEPT !.op = "create", !.url = remote, !.res = "IoError",
                                   !.steps = <<"create_if_absent", "create_dir">>,
                                   !.errs = <<"create_dir">>]
         /\ UNCHANGED <<sync, opened, remotes, files, index, commits, head>>
    ELSE IF remote # NoRemote /\ ~ValidUrl(remote)
    THEN \* git2::Repository::clone fails; the folder stays
         /\ rootExists' = TRUE
         /\ sync' = "folder"
         /\ last' = [NoCall EXCEPT !.op = "create", !.url = remote,
                                   !.res = "TransportError",
                                   !.steps = <<"create_if_absent", "create_dir", "clone">>,
                                   !.errs = <<"clone">>]
         /\ UNCHANGED <<opened, remotes, files, index, commits, head>>
    ELSE /\ rootExists' = TRUE
         /\ sync' = "repo"
         /\ opened' = TRUE
         /\ remotes' = IF remote = NoRemote THEN {}
                       ELSE {[name |-> "origin", url |-> remote]}
         /\ files' = IF remote = NoRemote THEN EmptyTree ELSE RemoteTree(remote)
         /\ index' = files'
         /\ commits' = IF remote = NoRemote THEN <<>> ELSE RemoteLog(remote)
         /\ head' = Len(commits')
         /\ last' = [NoCall EXCEPT !.op = "create", !.url = remote,
                        !.steps = <<"create_if_absent", "create_dir",
                                    IF remote = NoRemote THEN "init" ELSE "clone",
                                    "open">>]

Create(remote) ==
    /\ create(remote)
    /\ UNCHANGED <<clock, store, applied, lastSync, unpublished, remoteCall,
                   okRounds, chg, mem>>

\* open(loc): git2::Repository::open on the conventional path.
Open ==
    /\ IF sync = "repo"
       THEN /\ opened' = TRUE
            /\ last' = [NoCall EXCEPT !.op = "open", !.steps = <<"open">>]
       ELSE /\ opened' = opened
            /\ last' = [NoCall EXCEPT !.op = "open", !.res = "TransportError",
                                      !.steps = <<"open">>, !.errs = <<"open">>]
    /\ UNCHANGED <<rootExists, sync, remotes, files, index, commits, head,
                   clock, store, applied, lastSync, unpublished, remoteCall,
                   okRounds, chg, mem>>

\* ------------------------------------------------------------------------
\* Remote management
\* ------------------------------------------------------------------------
\* git2 repo.remote(name, url): fails on a name in use or an unusable url.
git_remote(rs, name, url) ==
    IF ~ValidUrl(url) \/ (\E r \in rs : r.name = name)
    THEN [res |-> "TransportError", remotes |-> rs]
    ELSE [res |-> "Ok", remotes |-> rs \cup {[name |-> name, url |-> url]}]

\* A delete that succeeds when there is nothing to delete.
git_remote_delete_Lenient(rs, name) ==
    [res |-> "Ok", remotes |-> {r \in rs : r.name # name}]

\* git2 repo.remote_delete(name): fails when no remote has the name.
git_remote_delete(rs, name) ==
    IF \E r \in rs : r.name = name
    THEN [res |-> "Ok", remotes |-> {r \in rs : r.name # name}]
    ELSE [res |-> "TransportError", remotes |-> rs]

add_remote_NoCheck(rs, url) == git_remote(rs, REMOTE_NAME, url)

add_remote(rs, url) ==
    IF rs # {}
    THEN [res |-> "RemoteAlreadyExists", remotes |-> rs]
    ELSE git_remote(rs, REMOTE_NAME, url)

remove_remote(rs) == git_remote_delete(rs, REMOTE_NAME)

\* change_remote variants a slip would produce: add before remove; the add's
\* result dropped.
change_remote_Swapped(rs, url) ==
    LET a == add_remote(rs, url) IN
    IF a.res # "Ok"
    THEN [res |-> a.res, remotes |-> a.remotes,
          steps |-> <<"add_remote">>, errs |-> <<"add_remote">>]
    ELSE LET r == remove_remote(a.remotes) IN
         [res |-> r.res, remotes |-> r.remotes,
          steps |-> <<"add_remote", "remove_remote">>,
          errs |-> IF r.res = "Ok" THEN <<>> ELSE <<"remove_remote">>]

change_remote_Dropped(rs, url) ==
    LET r == remove_remote(rs) IN
    IF r.res # "Ok"
    THEN [res |-> r.res, remotes |-> r.remotes,
          steps |-> <<"remove_remote">>, errs |-> <<"remove_remote">>]
    ELSE LET a == add_remote(r.remotes, url) IN
         [res |-> "Ok", remotes |-> a.remotes,
          steps |-> <<"remove_remote", "add_remote">>,
          errs |-> IF a.res = "Ok" THEN <<>> ELSE <<"add_remote">>]

\* change_remote: self.remove_remote()?; self.add_remote(remote)
change_remote(rs, url) ==
    LET r == remove_remote(rs) IN
    IF r.res # "Ok"
    THEN [res |-> r.res, remotes |-> r.remotes,
          steps |-> <<"remove_remote">>, errs |-> <<"remove_remote">>]
    ELSE LET a == add_remote(r.remotes, url) IN
         [res |-> a.res, remotes |-> a.remotes,
          steps |-> <<"remove_remote", "add_remote">>,
          errs |-> IF a.res = "Ok" THEN <<>> ELSE <<"add_remote">>]

RemoteFrame ==
    UNCHANGED <<rootExists, sync, opened, files, index, commits, head,
                clock, store, applied, lastSync, unpublished, okRounds, chg, mem>>

AddRemote(url) ==
    /\ opened
    /\ LET a == add_remote(remotes, url) IN
         /\ remotes' = a.remotes
         /\ remoteCall' = [op |-> "add_remote", url |-> url, res |-> a.res]
         /\ last' = [NoCall EXCEPT !.op = "add_remote", !.url = url, !.res = a.res,
                        !.steps = <<"add_remote">>,
                        !.errs = IF a.res = "Ok" THEN <<>> ELSE <<"add_remote">>,
                        !.before = remotes, !.prior = remoteCall]
    /\ RemoteFrame

RemoveRemote ==
    /\ opened
    /\ LET r == remove_remote(remotes) IN
         /\ remotes' = r.remotes
         /\ remoteCall' = [op |-> "remove_remote", url |-> "", res |-> r.res]
         /\ last' = [NoCall EXCEPT !.op = "remove_remote", !.res = r.res,
                        !.steps = <<"remove_remote">>,
                        !.errs = IF r.res = "Ok" THEN <<>> ELSE <<"remove_remote">>,
                        !.before = remotes, !.prior = remoteCall]
    /\ RemoteFrame

ChangeRemote(url) ==
    /\ opened
    /\ LET c == change_remote(remotes, url) IN
         /\ remotes' = c.remotes
         /\ remoteCall' = [op |-> "change_remote", url |-> url, res |-> c.res]
         /\ last' = [NoCall EXCEPT !.op = "change_remote", !.url = url, !.res = c.res,
                        !.steps = c.steps, !.errs = c.errs,
                        !.before = remotes, !.prior = remoteCall]
    /\ RemoteFrame

\* ------------------------------------------------------------------------
\* Local activity around the engine
\* ------------------------------------------------------------------------
\* The storage records one local change (an account added, a transaction
\* removed, ...).  Time is counted in local changes: the change is stamped
\* with the new time, so it is strictly later than every earlier reading of
\* the clock and no later than every reading that follows.
LocalChange(k, f, e) ==
    /\ Len(store) < MaxChanges
    /\ clock' = clock + 1
    /\ store' = Append(store, [kind |-> k, field |-> f, ent |-> e, time |-> clock'])
    /\ unpublished' = [i \in Instances |-> NoFile]
    /\ UNCHANGED <<rootExists, sync, opened, remotes, files, index, commits, head,
                   applied, lastSync, remoteCall, okRounds, chg, mem, last>>

\* perform_sync opens the instance file without create(true): the file is
\* there only if something outside the engine put it there.
TouchInstanceFile(i) ==
    /\ sync = "repo"
    /\ ~files[i].exists
    /\ files' = [files EXCEPT ![i] = File(<<>>)]
    /\ UNCHANGED <<rootExists, sync, opened, remotes, index, commits, head,
                   clock, store, applied, lastSync, unpublished, remoteCall,
                   okRounds, chg, mem, last>>

\* ------------------------------------------------------------------------
\* perform_sync
\* ------------------------------------------------------------------------
\* An order in which the local diff is published before the remote diffs
\* are merged.
StepOrder_PublishFirst ==
    <<"pull_remote", "diff_since", "open_file", "serialize_diff", "merge_diffs",
      "index", "find_tree", "config_name", "config_email", "signature",
      "head_lookup", "commit", "push_remote">>

\* The calls of one round, in program order (commit_files inlined).
StepOrder ==
    <<"pull_remote", "diff_since", "merge_diffs", "open_file", "serialize_diff",
      "index", "find_tree", "config_name", "config_email", "signature",
      "head_lookup", "commit", "push_remote">>

\* Calls the environment can make fail in a round; "none": no injected failure.
\* pull_remote and push_remote are `Ok(())` and cannot fail.
Faults ==
    {"none", "diff_since", "merge_diffs", "serialize_diff", "index", "find_tree",
     "config_name", "config_email", "signature", "commit"}

ErrorOf(step) ==
    CASE step \in {"diff_since", "merge_diffs"} -> "SyncableError"
      [] step = "open_file"                     -> "IoError"
      [] step = "serialize_diff"                -> "SerializationError"
      [] OTHER                                  -> "TransportError"

\* Whether an error of the call is returned by `?` (TRUE) or turned into None
\* by `.ok()` (FALSE).
Propagates_CommitDropped(step) == step \notin {"head_lookup", "commit"}

Propagates(step) == step # "head_lookup"

\* OpenOptions::new().write(true).truncate(true): the old content is cut.
Truncate_Kept(data) == data

Truncate(data) == <<>>

\* `let remote_diffs = Vec::new();  // TODO`
remote_diffs(i, fs) == <<>>

\* The base handed to diff_since: chrono::Utc::now().
diff_base(now, lastSynced) == now

\* Position in StepOrder of the first call whose error is returned, or
\* Len(StepOrder) + 1 when the round runs to its end.
RECURSIVE FirstAbort(_, _)
FirstAbort(k, fails) ==
    IF k > Len(StepOrder) THEN k
    ELSE IF StepOrder[k] \in fails /\ Propagates(StepOrder[k]) THEN k
    ELSE FirstAbort(k + 1, fails)

Steps == {StepOrder[k] : k \in 1..Len(StepOrder)}

PositionOf == [s \in Steps |-> CHOOSE k \in 1..Len(StepOrder) : StepOrder[k] = s]

Position(step) == PositionOf[step]

\* sync_instance_path: repo_path.join(instance). Instance names are plain
\* file names, so the file is the entry of the repository folder with that
\* name.
sync_instance_path_Fixed(instance) == InstanceOrder[1]

sync_instance_path(instance) == instance

\* `parents`: the head entry when the lookup gave one (0: None).
Parents_Orphan(head_commit) == <<>>

Parents(head_commit) == IF head_commit = 0 THEN <<>> ELSE <<head_commit>>

\* repo.commit(Some("HEAD"), ...): one new entry, whatever its tree.
commit_SkipsUnchanged(log, entry) ==
    IF log # <<>> /\ log[Len(log)].tree = entry.tree THEN log ELSE Append(log, entry)

commit(log, entry) == Append(log, entry)

\* The calls that return an error in a round of instance i: the injected
\* failure, the open of a file that is not there, the lookup of an unborn HEAD.
Fails(i, fault) ==
    (IF fault = "none" THEN {} ELSE {fault})
    \cup (IF files[sync_instance_path(i)].exists THEN {} ELSE {"open_file"})
    \cup (IF head = 0 THEN {"head_lookup"} ELSE {})

perform_sync(i, fault) ==
    \E fails \in {Fails(i, fault)} :
    \E stop \in {FirstAbort(1, fails)} :
    \E base \in {diff_base(clock, lastSync[i])} :
    \E diffs \in {remote_diffs(i, files)} :
    \E path \in {sync_instance_path(i)} :
    LET Passed(step) == Position(step) < stop
        Succeeded(step) == Passed(step) /\ step \notin fails
        ran == SubSeq(StepOrder, 1, IF stop > Len(StepOrder) THEN Len(StepOrder) ELSE stop)
        res == IF stop > Len(StepOrder) THEN "Ok" ELSE ErrorOf(StepOrder[stop])
    IN  /\ applied' = IF Succeeded("merge_diffs") THEN merge_diffs(applied, diffs)
                      ELSE applied
        /\ files' =
              IF ~Passed("open_file") THEN files
              ELSE IF Succeeded("serialize_diff")
                   THEN [files EXCEPT ![path] =
                            File(serialize_diff(Truncate(files[path].data),
                                                diff_since(store, base), i))]
                   ELSE [files EXCEPT ![path] = File(Truncate(files[path].data))]
        /\ index' = IF Succeeded("index") THEN [index EXCEPT ![path] = files'[path]]
                    ELSE index
        /\ commits' =
              IF Succeeded("commit")
              THEN commit(commits,
                          [parents |-> Parents(IF Succeeded("head_lookup") THEN head ELSE 0),
                           tree |-> index', msg |-> i])
              ELSE commits
        /\ head' = IF Succeeded("commit") THEN Len(commits') ELSE head
        /\ lastSync' = IF res = "Ok" THEN [lastSync EXCEPT ![i] = clock] ELSE lastSync
        /\ okRounds' = IF res = "Ok" THEN okRounds + 1 ELSE okRounds
        /\ unpublished' =
              [unpublished EXCEPT ![i] =
                  IF res = "Ok" \/ (Passed("open_file") /\ ~Succeeded("serialize_diff"))
                  THEN NoFile
                  ELSE IF Succeeded("serialize_diff") THEN files'[path] ELSE @]
        /\ last' = [op |-> "perform_sync", inst |-> i, url |-> "", res |-> res,
                    steps |-> ran,
                    errs |-> SelectSeq(ran, LAMBDA s : s \in fails),
                    base |-> IF Position("diff_since") <= stop THEN base ELSE 0,
                    merged |-> diffs,
                    nlocal |-> Len(store),
                    fresh |-> (remotes = {} /\ commits = <<>> /\ head = 0
                               /\ ~files[path].exists),
                    synced |-> lastSync[i],
                    pending |-> unpublished[i],
                    before |-> remotes, prior |-> remoteCall]

PerformSync(i, fault) ==
    /\ opened
    /\ Len(commits) < MaxCommits
    /\ okRounds < MaxCommits
    /\ perform_sync(i, fault)
    /\ UNCHANGED <<rootExists, sync, opened, remotes, clock, store, remoteCall,
                   chg, mem>>

\* ------------------------------------------------------------------------
\* Specification
\* ------------------------------------------------------------------------
\* Remote management on a repository location: create, open and the three
\* remote operations of SyncEngine.
NextRemote ==
    \/ \E r \in Urls \cup {NoRemote} : Create(r)
    \/ Open
    \/ \E u \in Urls : AddRemote(u)
    \/ RemoveRemote
    \/ \E u \in Urls : ChangeRemote(u)

SpecRemote == Init /\ [][NextRemote]_vars

\* Synchronization rounds on a repository that was initialized empty or
\* cloned from the endpoint holding B's diff.
NextSync ==
    \/ \E r \in {NoRemote, "u2"} : Create(r)
    \/ \E s \in ChangeShapes, e \in Entities : LocalChange(s[1], s[2], e)
    \/ \E i \in Instances : TouchInstanceFile(i)
    \/ \E i \in Instances, f \in Faults : PerformSync(i, f)

SpecSync == Init /\ [][NextSync]_vars

\* ------------------------------------------------------------------------
\* Changelogs: two changelogs a and b are populated item by item, then
\* a.append(b) is called, or a is serialized and read back.
\* ------------------------------------------------------------------------
ChangelogItems == {"e1", "e2"}

RECURSIVE SizeFrom(_, _)
SizeFrom(c, s) ==
    IF s > Len(SlotOrder) THEN 0
    ELSE Len(c[SlotOrder[s][1]][SlotOrder[s][2]]) + SizeFrom(c, s + 1)

Size(c) == SizeFrom(c, 1)

Pushed(c, k, f, e) == [c EXCEPT ![k][f] = Append(@, e)]

\* The producing storage adds an item e to a.k.f or to b.k.f.
Populate ==
    /\ chg.phase = "build"
    /\ Size(chg.a) + Size(chg.b) < MaxItems
    /\ \E k \in Kinds, f \in Fields, e \in ChangelogItems :
          \/ chg' = [chg EXCEPT !.a = Pushed(@, k, f, e)]
          \/ chg' = [chg EXCEPT !.b = Pushed(@, k, f, e)]
    /\ UNCHANGED <<engineVars, mem>>

\* a.append(b): b is consumed; append returns Ok(()).
AppendCall ==
    /\ chg.phase = "build"
    /\ chg' = [chg EXCEPT !.phase = "appended", !.a0 = chg.a, !.b0 = chg.b,
                          !.a = append(chg.a, chg.b), !.b = Changelog_new,
                          !.res = "Ok"]
    /\ UNCHANGED <<engineVars, mem>>

\* Changelog::from_slice(&a.to_vec()?)
RoundTrip ==
    /\ chg.phase \in {"build", "appended"}
    /\ \E bytes \in {to_vec(chg.a)} :
          chg' = [chg EXCEPT !.phase = "decoded", !.bytes = bytes,
                             !.back = from_slice(bytes)]
    /\ UNCHANGED <<engineVars, mem>>

NextChangelog ==
    \/ Populate
    \/ AppendCall
    \/ RoundTrip

SpecChangelog == Init /\ [][NextChangelog]_vars

\* ------------------------------------------------------------------------
\* CryptoBuffer (crypto/buffer.rs): one buffer is constructed in one of the
\* four ways and later dropped. mem.data is the sequence the buffer owns,
\* mem.source the caller's value after the call, mem.released the content
\* of the backing memory at the moment it is handed back to the allocator.
\* ------------------------------------------------------------------------
Constructed(how, data, orig, source) ==
    [mem EXCEPT !.state = "live", !.how = how, !.data = data,
                !.orig = orig, !.source = source]

\* CryptoBuffer::new() / Default
New ==
    /\ mem.state = "none"
    /\ mem' = Constructed("new", <<>>, <<>>, <<>>)
    /\ UNCHANGED <<engineVars, chg>>

\* From<Vec<u8>>: the vector is moved into the buffer.
FromVec(value) ==
    /\ mem.state = "none"
    /\ mem' = Constructed("from_vec", value, value, <<>>)
    /\ UNCHANGED <<engineVars, chg>>

\* From<&[u8]>: the bytes are copied, the slice is left as it was.
FromSlice(value) ==
    /\ mem.state = "none"
    /\ mem' = Constructed("from_slice", value, value, value)
    /\ UNCHANGED <<engineVars, chg>>

\* DestructiveFrom<String>
DestructiveFrom(value) ==
    /\ mem.state = "none"
    /\ \E r \in {destructive_from(value)} :
          mem' = Constructed("destructive_from", r.buffer, value, r.value)
    /\ UNCHANGED <<engineVars, chg>>

\* Drop for CryptoBuffer: destroy_data over the owned bytes, then the
\* vector's memory is released.
Drop ==
    /\ mem.state = "live"
    /\ mem' = [mem EXCEPT !.state = "dropped", !.released = destroy_data(mem.data)]
    /\ UNCHANGED <<engineVars, chg>>

NextBuffer ==
    \/ New
    \/ \E value \in ByteSeqs(MaxBufLen) : FromVec(value)
    \/ \E value \in ByteSeqs(MaxBufLen) : FromSlice(value)
    \/ \E value \in ByteSeqs(MaxBufLen) : DestructiveFrom(value)
    \/ Drop

SpecBuffer == Init /\ [][NextBuffer]_vars

AllZero(bytes) == \A n \in 1..Len(bytes) : bytes[n] = 0

\* ------------------------------------------------------------------------
\* Helpers of the properties
\* ------------------------------------------------------------------------
InSeq(s, x) == \E n \in 1..Len(s) : s[n] = x

NoRepeat(s) == \A m, n \in 1..Len(s) : s[m] = s[n] => m = n

IsSync == last.op = "perform_sync"

SyncStep == \E i \in Instances, f \in Faults : PerformSync(i, f)

\* A step of SpecSync that is a perform_sync call, told by what it leaves and
\* what it sets: the call record is a round's, the store is untouched and no
\* file appears.
RoundTaken ==
    /\ last'.op = "perform_sync"
    /\ store' = store
    /\ sync' = sync
    /\ \A i \in Instances : files'[i].exists = files[i].exists

RoundTakenIsSyncStep == [][RoundTaken <=> SyncStep]_vars

\* The instance files of the entry HEAD points at.
LogTree == IF head = 0 THEN EmptyTree ELSE commits[head].tree

\* The diffs of the other instances' files in the log, by instance name
\* ascending.
RECURSIVE OtherDiffsFrom(_, _)
OtherDiffsFrom(i, k) ==
    IF k > Len(InstanceOrder) THEN <<>>
    ELSE LET j == InstanceOrder[k] IN
         (IF j # i /\ LogTree[j].exists
          THEN <<deserialize_diff(j, LogTree[j].data).diff>> ELSE <<>>)
         \o OtherDiffsFrom(i, k + 1)

OthersReadable(i) ==
    \A j \in Instances \ {i} :
        LogTree[j].exists => deserialize_diff(j, LogTree[j].data).ok

\* The six stages of a round and the calls each is made of.
RoundStages ==
    <<{"pull_remote"}, {"diff_since"}, {"merge_diffs"},
      {"open_file", "serialize_diff"},
      {"index", "find_tree", "config_name", "config_email", "signature",
       "head_lookup", "commit"},
      {"push_remote"}>>

StageOf ==
    [s \in Steps |-> CHOOSE g \in 1..Len(RoundStages) : s \in RoundStages[g]]

\* The entries reachable from entry h through first parents, newest first.
RECURSIVE ChainFrom(_)
ChainFrom(h) ==
    IF h = 0 THEN <<>>
    ELSE <<h>> \o ChainFrom(IF commits[h].parents = <<>> THEN 0
                           ELSE commits[h].parents[1])

OneAccountAdded(e) ==
    [Changelog_new EXCEPT !.accounts = [SimpleChangelog_new EXCEPT !.added = <<e>>]]

\* ------------------------------------------------------------------------
\* C1: in perform_sync(current_instance), merge_diffs is invoked with exactly
\* one diff for every instance file in the log other than current_instance's
\* own, each obtained through deserialize_diff, ordered by instance name
\* ascending.
\* ------------------------------------------------------------------------
C1_MergeReceivesOtherInstancesDiffs ==
    [][\A i \in Instances, f \in Faults :
          (PerformSync(i, f) /\ InSeq(last'.steps, "merge_diffs") /\ OthersReadable(i))
              => last'.merged = OtherDiffsFrom(i, 1)]_vars

\* ------------------------------------------------------------------------
\* C2: perform_sync on a freshly created repository (create without a remote,
\* no head entry, no file for current_instance), with no call of the round
\* failing for a reason outside the engine, succeeds and produces a first log
\* entry that has zero parents.
\* ------------------------------------------------------------------------
C2_FreshSyncSucceeds ==
    (IsSync /\ last.fresh
        /\ \A n \in 1..Len(last.errs) : last.errs[n] \in {"open_file", "head_lookup"})
    => (last.res = "Ok" /\ Len(commits) = 1 /\ commits[1].parents = <<>>)

\* ------------------------------------------------------------------------
\* C3: instance A, starting from an empty store, adds one account and runs
\* perform_sync; afterwards the file named A holds a changelog whose
\* accounts.added is exactly that account and whose other fields are empty.
\* ------------------------------------------------------------------------
C3_FirstDiffHoldsAddedAccount ==
    (IsSync /\ last.inst = "A" /\ last.res = "Ok" /\ last.synced = 0
        /\ last.nlocal = 1 /\ store[1].kind = "accounts" /\ store[1].field = "added")
    => /\ files["A"].exists
       /\ deserialize_diff("A", files["A"].data).ok
       /\ deserialize_diff("A", files["A"].data).diff = OneAccountAdded(store[1].ent)

\* ------------------------------------------------------------------------
\* C4: in every round of perform_sync the base passed to diff_since is the
\* time of this instance's last successful sync, not a later time.
\* ------------------------------------------------------------------------
C4_BaseIsLastSuccessfulSync ==
    (IsSync /\ last.synced > 0 /\ InSeq(last.steps, "diff_since"))
    => last.base = last.synced

\* ------------------------------------------------------------------------
\* C5: add_remote with no remote configured and a usable endpoint registers
\* it under the conventional name; an add_remote that follows a successful
\* add_remote with no remove_remote or change_remote in between fails with
\* RemoteAlreadyExists and leaves the registered remote as it was.
\* ------------------------------------------------------------------------
C5_SecondAddRemoteFails ==
    /\ (last.op = "add_remote" /\ last.before = {} /\ ValidUrl(last.url))
          => (last.res = "Ok" /\ remotes = {[name |-> "origin", url |-> last.url]})
    /\ (last.op = "add_remote" /\ last.prior.op = "add_remote" /\ last.prior.res = "Ok")
          => (/\ last.res = "RemoteAlreadyExists"
              /\ remotes = {[name |-> "origin", url |-> last.prior.url]})

C5_Witness ==
    /\ last.op = "add_remote"
    /\ last.prior.op = "add_remote"
    /\ last.prior.res = "Ok"
    /\ last.url # last.prior.url
    /\ ValidUrl(last.url)

\* ------------------------------------------------------------------------
\* C6: after change_remote(new) returns successfully exactly one remote is
\* configured and its endpoint is new; the endpoint configured before is no
\* longer registered.
\* ------------------------------------------------------------------------
C6_ChangeRemoteLeavesOnlyNew ==
    (last.op = "change_remote" /\ last.res = "Ok")
    => /\ remotes = {[name |-> "origin", url |-> last.url]}
       /\ \A r \in last.before : r.url # last.url => r \notin remotes

C6_Witness ==
    /\ last.op = "change_remote"
    /\ last.res = "Ok"
    /\ \E r \in last.before : r.url # last.url

\* ------------------------------------------------------------------------
\* C7: change_remote is remove_remote then add_remote and is not atomic: when
\* the remove step succeeds and the add step fails, change_remote returns the
\* add's error and no remote is configured afterwards (the old one is not
\* restored).
\* ------------------------------------------------------------------------
C7_ChangeRemoteNotAtomic ==
    (last.op = "change_remote" /\ last.steps = <<"remove_remote", "add_remote">>
        /\ last.errs = <<"add_remote">>)
    => /\ last.res = add_remote({}, last.url).res
       /\ last.res # "Ok"
       /\ remotes = {}

C7_Witness ==
    /\ last.op = "change_remote"
    /\ last.steps = <<"remove_remote", "add_remote">>
    /\ last.errs = <<"add_remote">>
    /\ last.before # {}
    /\ remotes = {}

\* ------------------------------------------------------------------------
\* C8: in every state reachable by create (with or without a remote), open,
\* add_remote, remove_remote and change_remote calls, successful or failed,
\* the repository has at most one remote, and it is named origin.
\* ------------------------------------------------------------------------
C8_AtMostOneRemoteNamedOrigin ==
    /\ Cardinality(remotes) <= 1
    /\ \A r \in remotes : r.name = "origin"

C8_Witness ==
    /\ last.op = "add_remote"
    /\ last.res = "RemoteAlreadyExists"
    /\ last.prior.op = "change_remote"
    /\ Cardinality(remotes) = 1

\* ------------------------------------------------------------------------
\* C9 as stated: when any step of perform_sync fails, the head lookup of the
\* commit included, perform_sync returns that error, runs none of the later
\* steps and retries nothing.
\* ------------------------------------------------------------------------
C9_AnyFailedStepAborts ==
    (IsSync /\ last.errs # <<>>)
    => /\ last.res = ErrorOf(last.errs[1])
       /\ last.steps[Len(last.steps)] = last.errs[1]
       /\ NoRepeat(last.steps)

\* ------------------------------------------------------------------------
\* C9 amended: when a step of perform_sync other than the head lookup fails,
\* perform_sync returns that error, runs none of the later steps (their
\* effects on the file, the index and the log are absent) and retries
\* nothing; a failed head lookup is not returned: the round goes on and the
\* entry it creates has zero parents.
\* ------------------------------------------------------------------------
C9_FailedStepButHeadLookupAborts ==
    [][RoundTaken =>
        LET ran == last'.steps
            hard == SelectSeq(last'.errs, LAMBDA s : s # "head_lookup")
        IN  /\ NoRepeat(ran)
            /\ ran = SubSeq(StepOrder, 1, Len(ran))
            /\ Len(hard) <= 1
            /\ hard = <<>> =>
                  /\ last'.res = "Ok"
                  /\ ran = StepOrder
                  /\ InSeq(last'.errs, "head_lookup") => commits'[head'].parents = <<>>
            /\ hard # <<>> =>
                  /\ last'.res = ErrorOf(hard[1])
                  /\ last'.res # "Ok"
                  /\ ran[Len(ran)] = hard[1]
                  /\ Position(hard[1]) <= Position("merge_diffs") => applied' = applied
                  /\ Position(hard[1]) <= Position("open_file") => files' = files
                  /\ Position(hard[1]) <= Position("index") => index' = index
                  /\ commits' = commits
                  /\ head' = head
                  /\ lastSync' = lastSync]_vars

C9_Witness ==
    /\ IsSync
    /\ last.errs = <<"head_lookup", "commit">>
    /\ last.res = "TransportError"
    /\ commits = <<>>

C11_AppendConcatenates ==
    chg.phase = "appended"
    => /\ chg.res = "Ok"
       /\ \A k \in Kinds, f \in Fields :
             /\ chg.a[k][f] = chg.a0[k][f] \o chg.b0[k][f]
             /\ Len(chg.a[k][f]) = Len(chg.a0[k][f]) + Len(chg.b0[k][f])

C11_Witness ==
    /\ chg.phase = "appended"
    /\ chg.a0.plans.removed = <<"e2">>
    /\ chg.b0.plans.removed = <<"e1">>
    /\ chg.a.plans.removed = <<"e2", "e1">>

C13_DropZeroesOwnedBytes ==
    mem.state = "dropped"
    => /\ mem.how \in {"new", "from_vec", "from_slice", "destructive_from"}
       /\ Len(mem.released) = Len(mem.data)
       /\ AllZero(mem.released)

C13_Witness ==
    /\ mem.state = "dropped"
    /\ mem.how = "from_vec"
    /\ mem.data = <<255, 1>>
    /\ mem.released = <<0, 0>>

\* ------------------------------------------------------------------------
\* C14: destructive_from(s) returns a buffer whose bytes equal the original
\* bytes of s, and right after the call every byte of s is zero while the
\* length of s is unchanged.
\* ------------------------------------------------------------------------
C14_DestructiveFromCopiesThenWipes ==
    (mem.state = "live" /\ mem.how = "destructive_from")
    => /\ mem.data = mem.orig
       /\ Len(mem.source) = Len(mem.orig)
       /\ AllZero(mem.source)

C14_Witness ==
    /\ mem.state = "live"
    /\ mem.how = "destructive_from"
    /\ mem.orig = <<1, 255>>
    /\ mem.data = <<1, 255>>
    /\ mem.source = <<0, 0>>

\* ------------------------------------------------------------------------
\* C15: within one perform_sync round the stages happen in the order fetch,
\* diff_since, merge_diffs, overwrite of the instance file, commit, push,
\* each at most once; merge_diffs has completed before the instance file is
\* written and the commit has completed before the push.
\* ------------------------------------------------------------------------
C15_StagesInOrder ==
    [][RoundTaken =>
        LET ran == last'.steps
            Done(s) == InSeq(ran, s) /\ ~InSeq(last'.errs, s)
        IN  /\ NoRepeat(ran)
            /\ ran # <<>> /\ StageOf[ran[1]] = 1
            /\ \A n \in 2..Len(ran) :
                  /\ StageOf[ran[n - 1]] <= StageOf[ran[n]]
                  /\ StageOf[ran[n]] <= StageOf[ran[n - 1]] + 1
            /\ InSeq(ran, "merge_diffs") => Done("diff_since")
            /\ (InSeq(ran, "open_file") \/ files' # files) => Done("merge_diffs")
            /\ (InSeq(ran, "index") \/ index' # index) => Done("serialize_diff")
            /\ commits' # commits => Done("serialize_diff")
            /\ InSeq(ran, "push_remote") =>
                  /\ Done("commit")
                  /\ Len(commits') = Len(commits) + 1]_vars

C15_Witness ==
    /\ last.op = "perform_sync"
    /\ last.res = "Ok"
    /\ Len(last.steps) = 13
    /\ last.steps[1] = "pull_remote"
    /\ last.steps[2] = "diff_since"
    /\ last.steps[3] = "merge_diffs"
    /\ last.steps[4] = "open_file"
    /\ last.steps[12] = "commit"
    /\ last.steps[13] = "push_remote"
    /\ head = 2

\* ------------------------------------------------------------------------
\* C16: every log entry created by commit_files has as its only parent the
\* head entry current when the commit was made, or no parent when there was
\* no head entry; the history reachable from HEAD is a single linear chain
\* and no entry has two or more parents.
\* ------------------------------------------------------------------------
C16_LinearHistory ==
    /\ [](/\ \A n \in 1..Len(commits) :
               /\ Len(commits[n].parents) <= 1
               /\ commits[n].parents # <<>> => commits[n].parents[1] \in 1..(n - 1)
          /\ NoRepeat(ChainFrom(head)))
    /\ [][(RoundTaken /\ commits' # commits) =>
             /\ Len(commits') = Len(commits) + 1
             /\ SubSeq(commits', 1, Len(commits)) = commits
             /\ head' = Len(commits')
             /\ commits'[head'].parents = (IF head = 0 THEN <<>> ELSE <<head>>)]_vars

C16_Witness ==
    /\ last.op = "perform_sync"
    /\ last.res = "Ok"
    /\ remotes = {}
    /\ Len(commits) = 2
    /\ commits[1].parents = <<>>
    /\ commits[2].parents = <<1>>
    /\ head = 2
    /\ ChainFrom(head) = <<2, 1>>

\* ------------------------------------------------------------------------
\* C17: perform_sync(current_instance) writes and stages only the file named
\* current_instance: the file of every other instance J, and its staged
\* version, are the same after the round as before it, whether the round
\* succeeds or fails.
\* ------------------------------------------------------------------------
C17_OtherInstanceFilesUntouched ==
    [][RoundTaken =>
        \A j \in Instances \ {last'.inst} :
            /\ files'[j] = files[j]
            /\ index'[j] = index[j]]_vars

C17_Witness ==
    /\ last.op = "perform_sync"
    /\ last.inst = "B"
    /\ last.res = "Ok"
    /\ files["A"].exists
    /\ files["B"].exists
    /\ files["A"] # files["B"]
    /\ index["A"] = files["A"]

\* ------------------------------------------------------------------------
\* C19: every successful perform_sync round adds exactly one entry to the
\* log, even when the instance file's content did not change, and a failed
\* round adds at most one; on a repository created without a remote the
\* history reachable from HEAD has as many entries as rounds succeeded.
\* ------------------------------------------------------------------------
C19_OneEntryPerSuccessfulRound ==
    /\ []((sync = "repo" /\ remotes = {}) => Len(ChainFrom(head)) = okRounds)
    /\ [][RoundTaken =>
             /\ last'.res = "Ok" =>
                   /\ Len(commits') = Len(commits) + 1
                   /\ okRounds' = okRounds + 1
             /\ last'.res # "Ok" =>
                   /\ Len(commits') <= Len(commits) + 1
                   /\ okRounds' = okRounds]_vars

C19_Witness ==
    /\ sync = "repo"
    /\ remotes = {}
    /\ okRounds = 2
    /\ Len(commits) = 2
    /\ commits[1].tree = commits[2].tree
    /\ ChainFrom(head) = <<2, 1>>

\* ------------------------------------------------------------------------
\* C18: change_remote(new) called when no remote is configured fails at its
\* remove step, returns that error without attempting add_remote and leaves
\* the repository with no remote (new is not registered); remove_remote with
\* no remote configured returns an error and changes nothing.
\* ------------------------------------------------------------------------
C18_NothingToRemove ==
    [][(remotes = {} /\ last'.op \in {"change_remote", "remove_remote"}) =>
          /\ last'.res = "TransportError"
          /\ last'.res # "Ok"
          /\ last'.steps = <<"remove_remote">>
          /\ last'.errs = <<"remove_remote">>
          /\ ~InSeq(last'.steps, "add_remote")
          /\ remotes' = {}
          /\ UNCHANGED <<sync, opened, files, index, commits, head>>]_vars

C18_Witness ==
    /\ last.op = "change_remote"
    /\ last.before = {}
    /\ ValidUrl(last.url)
    /\ last.res = "TransportError"
    /\ last.steps = <<"remove_remote">>
    /\ remotes = {}
    /\ last.prior.op = "remove_remote"
    /\ last.prior.res = "TransportError"

\* ------------------------------------------------------------------------
\* C20: create on a location whose synchronization subfolder already exists
\* (for example a second create at the same location) fails with an I/O
\* error before any clone or init is attempted and leaves the existing
\* repository, its log and its remote registration unchanged.
\* ------------------------------------------------------------------------
C20_CreateNotRepeatable ==
    [][(sync # "absent" /\ last'.op = "create") =>
          /\ last'.res = "IoError"
          /\ last'.errs = <<"create_dir">>
          /\ last'.steps = <<"create_if_absent", "create_dir">>
          /\ ~InSeq(last'.steps, "clone")
          /\ ~InSeq(last'.steps, "init")
          /\ UNCHANGED <<sync, opened, remotes, files, index, commits, head>>]_vars

C20_Witness ==
    /\ last.op = "create"
    /\ last.res = "IoError"
    /\ last.url = NoRemote
    /\ sync = "repo"
    /\ remotes = {[name |-> "origin", url |-> "u2"]}
    /\ commits # <<>>
    /\ head = Len(commits)

====
